---- MODULE Spec2Model ----
(***************************************************************************)
(* A model of the Prospectus-AI pipeline: agent1's chunker and classifier, *)
(* agent2's context assembler, section generation and the incremental      *)
(* section store with its composite file all_sections.md.                  *)
(*                                                                         *)
(* Texts are sequences of tokens.  A token is either one character ("x",   *)
(* " ", "\n") or a fixed run of non-whitespace characters that the code    *)
(* only ever copies (a section identifier, a word of a section name, a     *)
(* literal of an f-string).                                                *)
(***************************************************************************)
EXTENDS Integers, Sequences, FiniteSets, TLC

VARIABLES
    files,        \* output_dir: stem of each section_*.md file -> its content
    composite,    \* output_dir/all_sections.md
    pc,           \* "idle", or "batch" inside run_agent2's loop
    done,         \* iterations of run_agent2's loop completed in this run
    chunks,       \* the pool run_agent2 loaded for the run in progress
    last,         \* how the most recent run or loop iteration ended
    lastText,     \* section id -> text of the most recent write for it
    asm,          \* a call of the context assembler: its arguments and result
    ct,           \* a call of chunk_text: its arguments, locals and position
    a1            \* agent1: a call of classify_file, or the runs of run_agent1

storeVars == <<files, composite, pc, done, chunks, last, lastText>>

vars == <<files, composite, pc, done, chunks, last, lastText, asm, ct, a1>>

(***************************************************************************)
(* Bounds of the model.                                                    *)
(***************************************************************************)
\* run_agent2's sections argument is drawn one element at a time; at most
\* MaxBatch valid elements are iterated in one run.
MaxBatch == 2

\* Section identifiers the runs are asked for: positions 3 and 25 (the last).
UsedIds == {"Summary", "GlobalOfferingStructure"}

\* An identifier that SECTIONS does not hold, and the identifiers a caller may
\* pass with it.
UnknownId == "NotASection"

RequestedIds == UsedIds \cup {UnknownId}

\* What the external model does when called: it raises, or it decodes to a raw
\* response that run_qwen_with_model then strips.
LlmOutcomes ==
    { [raises |-> TRUE, response |-> <<>>],
      [raises |-> FALSE, response |-> <<"y">>],
      [raises |-> FALSE, response |-> <<" ", "x", "\n">>] }

\* Pools rag_chunks.jsonl may hold when a store run loads it.
StorePools == { <<>>, <<[section_id |-> "E", text |-> <<"d">>]>> }

\* modification_instructions: None, the empty string, an instruction.
ModificationInstructions ==
    { [given |-> FALSE, text |-> <<>>],
      [given |-> TRUE, text |-> <<>>],
      [given |-> TRUE, text |-> <<"m">>] }

(***************************************************************************)
(* Strings.                                                                *)
(***************************************************************************)
EmptyMap == [x \in {} |-> x]

IsSpace(c) == c \in {" ", "\n", "\t", "\r"}

RECURSIVE LStrip(_)
LStrip(s) == IF s # <<>> /\ IsSpace(Head(s)) THEN LStrip(Tail(s)) ELSE s

RECURSIVE RStrip(_)
RStrip(s) ==
    IF s # <<>> /\ IsSpace(s[Len(s)]) THEN RStrip(SubSeq(s, 1, Len(s) - 1)) ELSE s

\* str.strip()
Strip(s) == RStrip(LStrip(s))

\* Index of the leftmost "\n\n" in s at or after i, 0 when there is none.
RECURSIVE FindBlankLineFrom(_, _)
FindBlankLineFrom(s, i) ==
    IF i >= Len(s) THEN 0
    ELSE IF s[i] = "\n" /\ s[i + 1] = "\n" THEN i ELSE FindBlankLineFrom(s, i + 1)

FindBlankLine(s) == FindBlankLineFrom(s, 1)

\* s.split("\n\n", 1)
SplitBlankLine(s) ==
    LET i == FindBlankLine(s)
    IN  IF i = 0 THEN <<s>> ELSE <<SubSeq(s, 1, i - 1), SubSeq(s, i + 2, Len(s))>>

\* Whether sequence p is a prefix of s / occurs in s.
StartsWith(s, p) == Len(p) <= Len(s) /\ SubSeq(s, 1, Len(p)) = p

Contains(s, p) ==
    \E i \in 0..(Len(s) - Len(p)) : SubSeq(s, i + 1, i + Len(p)) = p

\* All enumerations of a finite set.
RECURSIVE Orders(_)
Orders(S) ==
    IF S = {} THEN {<<>>}
    ELSE UNION {{<<x>> \o o : o \in Orders(S \ {x})} : x \in S}

(***************************************************************************)
(* agent2.py: the taxonomy.                                                *)
(***************************************************************************)
SECTIONS ==
    << <<"ExpectedTimetable", <<"Expected", " ", "Timetable">>>>,
       <<"Contents", <<"Contents">>>>,
       <<"Summary", <<"Summary">>>>,
       <<"Definitions", <<"Definitions">>>>,
       <<"Glossary", <<"Glossary", " ", "of", " ", "Technical", " ", "Terms">>>>,
       <<"ForwardLooking", <<"Forward-Looking", " ", "Statements">>>>,
       <<"RiskFactors", <<"Risk", " ", "Factors">>>>,
       <<"Waivers", <<"Waivers", " ", "from", " ", "Strict", " ", "Compliance", " ", "with", " ", "Listing", " ", "Rules", " ", "(Waivers", " ", "and", " ", "Exemptions)">>>>,
       <<"InfoProspectus", <<"Information", " ", "about", " ", "this", " ", "Prospectus", " ", "and", " ", "the", " ", "Global", " ", "Offering">>>>,
       <<"DirectorsParties", <<"Directors", " ", "and", " ", "Parties", " ", "Involved", " ", "in", " ", "the", " ", "Global", " ", "Offering">>>>,
       <<"CorporateInfo", <<"Corporate", " ", "Information">>>>,
       <<"Regulation", <<"Regulation", " ", "(Regulatory", " ", "Overview)">>>>,
       <<"IndustryOverview", <<"Industry", " ", "Overview">>>>,
       <<"HistoryReorg", <<"History,", " ", "Reorganization,", " ", "and", " ", "Corporate", " ", "Structure">>>>,
       <<"Business", <<"Business">>>>,
       <<"ContractualArrangements", <<"Contractual", " ", "Arrangements", " ", "(Variable", " ", "Interest", " ", "Entities)">>>>,
       <<"ControllingShareholders", <<"Relationship", " ", "with", " ", "Our", " ", "Controlling", " ", "Shareholders">>>>,
       <<"ConnectedTransactions", <<"Connected", " ", "Transactions">>>>,
       <<"DirectorsSeniorMgmt", <<"Directors", " ", "and", " ", "Senior", " ", "Management">>>>,
       <<"SubstantialShareholders", <<"Substantial", " ", "Shareholders">>>>,
       <<"ShareCapital", <<"Share", " ", "Capital">>>>,
       <<"FinancialInfo", <<"Financial", " ", "Information">>>>,
       <<"UseOfProceeds", <<"Future", " ", "Plans", " ", "and", " ", "Use", " ", "of", " ", "Proceeds">>>>,
       <<"Underwriting", <<"Underwriting">>>>,
       <<"GlobalOfferingStructure", <<"Structure", " ", "of", " ", "the", " ", "Global", " ", "Offering">>>> >>

section_ids_ordered == [i \in DOMAIN SECTIONS |-> SECTIONS[i][1]]

SectionIds == {SECTIONS[i][1] : i \in DOMAIN SECTIONS}

\* section_ids_ordered.index(sid), 1-based; 0 when sid is not in the taxonomy.
RECURSIVE IndexFrom(_, _)
IndexFrom(sid, i) ==
    IF i > Len(section_ids_ordered) THEN 0
    ELSE IF section_ids_ordered[i] = sid THEN i ELSE IndexFrom(sid, i + 1)

IndexOf(sid) == IndexFrom(sid, 1)

\* next((n for sid, n in SECTIONS if sid == section_id), section_id)
SectionName(section_id) ==
    IF section_id \in SectionIds THEN SECTIONS[IndexOf(section_id)][2] ELSE <<section_id>>

ALL_AGENT1_IDS == <<"A", "B", "C", "D", "E", "F", "G", "H">>

SeqToSet(s) == {s[i] : i \in DOMAIN s}

\* SECTION_TO_AGENT1_IDS.get(section_id, ["A", ..., "H"])
SECTION_TO_AGENT1_IDS(section_id) ==
    CASE section_id = "ExpectedTimetable" -> <<"H", "E">>
      [] section_id = "Contents" -> <<"A", "B", "C", "D", "E", "F", "G", "H">>
      [] section_id = "Summary" -> <<"A", "B", "D", "E", "F">>
      [] section_id = "Definitions" -> <<"A", "B", "C", "D", "E", "F", "G", "H">>
      [] section_id = "Glossary" -> <<"A", "B">>
      [] section_id = "ForwardLooking" -> <<"A", "B", "C", "D">>
      [] section_id = "RiskFactors" -> <<"C">>
      [] section_id = "Waivers" -> <<"G">>
      [] section_id = "InfoProspectus" -> <<"H", "E">>
      [] section_id = "DirectorsParties" -> <<"F", "H">>
      [] section_id = "CorporateInfo" -> <<"A", "F", "G">>
      [] section_id = "Regulation" -> <<"B", "G">>
      [] section_id = "IndustryOverview" -> <<"B">>
      [] section_id = "HistoryReorg" -> <<"A", "F">>
      [] section_id = "Business" -> <<"A", "B">>
      [] section_id = "ContractualArrangements" -> <<"A", "G">>
      [] section_id = "ControllingShareholders" -> <<"F">>
      [] section_id = "ConnectedTransactions" -> <<"F", "G">>
      [] section_id = "DirectorsSeniorMgmt" -> <<"F">>
      [] section_id = "SubstantialShareholders" -> <<"F", "E">>
      [] section_id = "ShareCapital" -> <<"E">>
      [] section_id = "FinancialInfo" -> <<"D">>
      [] section_id = "UseOfProceeds" -> <<"E">>
      [] section_id = "Underwriting" -> <<"H">>
      [] section_id = "GlobalOfferingStructure" -> <<"H", "E">>
      [] OTHER -> ALL_AGENT1_IDS

(***************************************************************************)
(* agent2.py: context assembly and generation.                             *)
(***************************************************************************)
DEFAULT_MAX_CONTEXT_CHARS == 15000

\* The greedy loop without its budget test.
TakeAll(filtered, total, max_chars) == filtered

\* The greedy loop with continue where the code has break: a fragment that
\* does not fit is passed over and later ones are still tried.
RECURSIVE SkipTooLarge(_, _, _)
SkipTooLarge(filtered, total, max_chars) ==
    IF filtered = <<>> THEN <<>>
    ELSE LET text == Head(filtered).text
         IN  IF total + Len(text) > max_chars
             THEN SkipTooLarge(Tail(filtered), total, max_chars)
             ELSE <<Head(filtered)>>
                      \o SkipTooLarge(Tail(filtered), total + Len(text), max_chars)

RECURSIVE TruncateToBudget(_, _, _)
TruncateToBudget(filtered, total, max_chars) ==
    IF filtered = <<>> THEN <<>>
    ELSE LET text == Head(filtered).text
         IN  IF total + Len(text) > max_chars THEN <<>>
             ELSE <<Head(filtered)>>
                      \o TruncateToBudget(Tail(filtered), total + Len(text), max_chars)

get_chunks_for_section(pool, section_id, max_chars) ==
    IF pool = <<>> THEN <<>>
    ELSE LET agent1_ids == SeqToSet(SECTION_TO_AGENT1_IDS(section_id))
             filtered == SelectSeq(pool, LAMBDA c : c.section_id \in agent1_ids)
         IN  TruncateToBudget(filtered, 0, max_chars)

\* The placeholder generate_section returns when no chunk was selected.
Placeholder(section_id) ==
    <<"[Section ", section_id, ": ">> \o SectionName(section_id)
        \o <<"]", "\n", "\n",
             "No RAG chunks available for this section. Manual draft required.">>

\* run_qwen_with_model: the decoded response, stripped.
generate_with_llm(llm) == Strip(llm.response)

\* generate_section testing the pool where the code tests the assembler's result.
GenerateSectionIfPoolNonEmpty(section_id, pool, max_context_chars, llm) ==
    IF pool = <<>>
    THEN [invoked |-> FALSE, raised |-> FALSE, text |-> Placeholder(section_id)]
    ELSE IF llm.raises
    THEN [invoked |-> TRUE, raised |-> TRUE, text |-> <<>>]
    ELSE [invoked |-> TRUE, raised |-> FALSE, text |-> generate_with_llm(llm)]

\* generate_section: whether the model was invoked, whether the call raised,
\* and the text returned when it did not.
generate_section(section_id, pool, max_context_chars, llm) ==
    LET section_chunks == get_chunks_for_section(pool, section_id, max_context_chars)
    IN  IF section_chunks = <<>>
        THEN [invoked |-> FALSE, raised |-> FALSE, text |-> Placeholder(section_id)]
        ELSE IF llm.raises
        THEN [invoked |-> TRUE, raised |-> TRUE, text |-> <<>>]
        ELSE [invoked |-> TRUE, raised |-> FALSE, text |-> generate_with_llm(llm)]

(***************************************************************************)
(* agent2.py: the per-section files.                                       *)
(***************************************************************************)
\* section_name.replace(" ", "_").replace("&", "and")
SafeName(section_name) ==
    [i \in DOMAIN section_name |->
        IF section_name[i] = " " THEN "_"
        ELSE IF section_name[i] = "&" THEN "and" ELSE section_name[i]]

\* The stem of out_file, section_{section_id}_{safe_name}.md
FileStem(section_id) ==
    <<"section_", section_id, "_">> \o SafeName(SectionName(section_id))

\* What the two f.write calls put in the file.
FileContent(section_id, text) ==
    <<"# Section ", section_id, ": ">> \o SectionName(section_id) \o <<"\n", "\n">> \o text

\* The file opened with "a": the writes land after what the file held.
WriteSectionFileAppending(fs, section_id, text) ==
    LET stem == FileStem(section_id)
        old == IF stem \in DOMAIN fs THEN fs[stem].data ELSE <<>>
    IN  [n \in DOMAIN fs \cup {stem} |->
            IF n = stem
            THEN [readable |-> TRUE, data |-> old \o FileContent(section_id, text)]
            ELSE fs[n]]

\* The write done in a directory emptied first: only the new file is left.
WriteSectionFileAlone(fs, section_id, text) ==
    [n \in {FileStem(section_id)} |->
        [readable |-> TRUE, data |-> FileContent(section_id, text)]]

\* open(out_file, "w") and the two writes: the file is replaced as a whole.
WriteSectionFile(fs, section_id, text) ==
    LET stem == FileStem(section_id)
    IN  [n \in DOMAIN fs \cup {stem} |->
            IF n = stem THEN [readable |-> TRUE, data |-> FileContent(section_id, text)]
            ELSE fs[n]]

\* The condition of the scan's inner loop for one file stem and one taxonomy entry.
StemMatches(name, sid) ==
    \/ Contains(name, <<"section_", sid, "_">> \o SafeName(SectionName(sid)))
    \/ StartsWith(name, <<"section_", sid, "_">>)

\* The inner loop of the scan: the first taxonomy position, among the first
\* max_index ones (the allowed identifiers), whose entry the stem matches; 0
\* when the loop ends without a break.
FirstMatch(name, max_index) ==
    LET hits == {i \in 1..max_index : StemMatches(name, section_ids_ordered[i])}
    IN  IF hits = {} THEN 0 ELSE CHOOSE i \in hits : \A j \in hits : i <= j

\* FirstMatch tabulated, one point at a time, for the stems the runs create.
RECURSIVE Tabulate(_, _)
Tabulate(keys, table) ==
    IF keys = {} THEN table
    ELSE LET k == CHOOSE x \in keys : TRUE
             grown == (k :> FirstMatch(k[1], k[2])) @@ table
         IN  IF DOMAIN grown = {} THEN grown ELSE Tabulate(keys \ {k}, grown)

\* The table grown by one file stem at a time.
RECURSIVE TabulateStems(_, _)
TabulateStems(names, table) ==
    IF names = {} THEN table
    ELSE LET name == CHOOSE x \in names : TRUE
             grown == Tabulate({name} \X (0..Len(SECTIONS)), table)
         IN  IF DOMAIN grown = {} THEN grown ELSE TabulateStems(names \ {name}, grown)

MatchTable == TabulateStems({FileStem(sid) : sid \in RequestedIds}, EmptyMap)

MatchIndex(name, max_index) == MatchTable[<<name, max_index>>]

\* A Python dict: keys in insertion order.
EmptyDict == [keys |-> <<>>, val |-> EmptyMap]

DictSet(d, k, v) ==
    [keys |-> IF k \in DOMAIN d.val THEN d.keys ELSE Append(d.keys, k),
     val  |-> (k :> v) @@ d.val]

(***************************************************************************)
(* agent2.py: the composite all_sections.md.                               *)
(***************************************************************************)
NoComposite == [exists |-> FALSE, title |-> <<>>, entries |-> <<>>]

Title == <<"# Prospectus Draft (Generated by Agent2)", "\n", "\n">>

\* f.read_text().split("\n\n", 1)[-1].strip()
AppendBody(content) ==
    LET parts == SplitBlankLine(content) IN Strip(parts[Len(parts)])

\* parts[-1].strip() if len(parts) > 1 else content.strip()
RebuildBody(content) ==
    LET parts == SplitBlankLine(content)
    IN  IF Len(parts) > 1 THEN Strip(parts[Len(parts)]) ELSE Strip(content)

\* max_index: the whole taxonomy unless only_sections_up_to is set and known.
MaxIndexAll(only_sections_up_to) == Len(section_ids_ordered)

MaxIndex(only_sections_up_to) ==
    IF only_sections_up_to # <<>> /\ only_sections_up_to[1] \in SectionIds
    THEN IndexOf(only_sections_up_to[1])
    ELSE Len(section_ids_ordered)

AllowedIds(max_index) == {section_ids_ordered[i] : i \in 1..max_index}

\* The scan of out_path.glob("section_*.md") in _append_to_all_sections, the
\* files coming in the order the directory lists them.  read_text raises on a
\* file it cannot decode, and the exception leaves the function.
RECURSIVE AppendScan(_, _, _, _)
AppendScan(fs, order, max_index, existing) ==
    IF order = <<>> THEN [ok |-> TRUE, existing |-> existing]
    ELSE LET name == Head(order)
             i == MatchIndex(name, max_index)
         IN  IF i = 0 THEN AppendScan(fs, Tail(order), max_index, existing)
             ELSE IF ~fs[name].readable THEN [ok |-> FALSE, existing |-> existing]
             ELSE AppendScan(fs, Tail(order), max_index,
                             DictSet(existing, SECTIONS[i][1], AppendBody(fs[name].data)))

\* The same scan in _rebuild_all_sections: every taxonomy entry is tried.
RECURSIVE RebuildScan(_, _, _)
RebuildScan(fs, order, existing) ==
    IF order = <<>> THEN [ok |-> TRUE, existing |-> existing]
    ELSE LET name == Head(order)
             i == MatchIndex(name, Len(SECTIONS))
         IN  IF i = 0 THEN RebuildScan(fs, Tail(order), existing)
             ELSE IF ~fs[name].readable THEN [ok |-> FALSE, existing |-> existing]
             ELSE RebuildScan(fs, Tail(order),
                              DictSet(existing, SECTIONS[i][1], RebuildBody(fs[name].data)))

AppendHeading(sid) == <<"## ">> \o SectionName(sid) \o <<"\n", "\n">>

RebuildHeading(sid) ==
    <<"## Section ", sid, ": ">> \o SectionName(sid) \o <<"\n", "\n">>

\* A loop over the dict instead of over SECTIONS.
AppendEntriesDictOrder(existing, allowed_ids) ==
    LET sel == SelectSeq(existing.keys, LAMBDA sid : sid \in allowed_ids)
    IN  [k \in DOMAIN sel |->
            [sid |-> sel[k], heading |-> AppendHeading(sel[k]), body |-> existing.val[sel[k]]]]

\* for sid, sname in SECTIONS: if sid in existing and sid in allowed_ids: ...
AppendEntries(existing, allowed_ids) ==
    LET sel == SelectSeq(section_ids_ordered,
                         LAMBDA sid : sid \in DOMAIN existing.val /\ sid \in allowed_ids)
    IN  [k \in DOMAIN sel |->
            [sid |-> sel[k], heading |-> AppendHeading(sel[k]), body |-> existing.val[sel[k]]]]

\* for sid, sname in SECTIONS: if sid in existing: ...
RebuildEntries(existing) ==
    LET sel == SelectSeq(section_ids_ordered, LAMBDA sid : sid \in DOMAIN existing.val)
    IN  [k \in DOMAIN sel |->
            [sid |-> sel[k], heading |-> RebuildHeading(sel[k]), body |-> existing.val[sel[k]]]]

\* _append_to_all_sections: ok is FALSE when read_text raised, and then
\* all_sections.md was not opened.
append_to_all_sections(fs, order, section_id, text, only_sections_up_to) ==
    LET max_index == MaxIndex(only_sections_up_to)
        allowed_ids == AllowedIds(max_index)
        scan == AppendScan(fs, order, max_index, EmptyDict)
        existing == DictSet(scan.existing, section_id, text)
    IN  IF ~scan.ok THEN [ok |-> FALSE, composite |-> NoComposite]
        ELSE [ok |-> TRUE,
              composite |-> [exists |-> TRUE, title |-> Title,
                             entries |-> AppendEntries(existing, allowed_ids)]]

\* _rebuild_all_sections
rebuild_all_sections(fs, order) ==
    LET scan == RebuildScan(fs, order, EmptyDict)
    IN  IF ~scan.ok THEN [ok |-> FALSE, composite |-> NoComposite]
        ELSE [ok |-> TRUE,
              composite |-> [exists |-> TRUE, title |-> Title,
                             entries |-> RebuildEntries(scan.existing)]]

(***************************************************************************)
(* agent2.py: the runs.                                                    *)
(***************************************************************************)
\* The truth value Python gives modification_instructions.
Truthy(modification_instructions) ==
    modification_instructions.given /\ modification_instructions.text # <<>>

OnlyUpToAlways(section_id, modification_instructions) == <<section_id>>

\* only_up_to = None if modification_instructions else section_id
OnlyUpTo(section_id, modification_instructions) ==
    IF Truthy(modification_instructions) THEN <<>> ELSE <<section_id>>

\* The file opened for writing before the text is there.
StoreOpenedBeforeGeneration(fs, section_id, gen) ==
    IF gen.raised
    THEN [n \in DOMAIN fs \cup {FileStem(section_id)} |->
            IF n = FileStem(section_id) THEN [readable |-> TRUE, data |-> <<>>] ELSE fs[n]]
    ELSE WriteSectionFile(fs, section_id, gen.text)

\* The store after generate_section returned or raised: the file is opened
\* only on the lines after the call.
StoreAfterGeneration(fs, section_id, gen) ==
    IF gen.raised THEN fs ELSE WriteSectionFile(fs, section_id, gen.text)

\* Whether writing text for section_id replaces a record holding another text.
Replaces(fs, section_id, text) ==
    /\ FileStem(section_id) \in DOMAIN fs
    /\ fs[FileStem(section_id)].readable
    /\ RebuildBody(fs[FileStem(section_id)].data) # text

NoInstruction == [given |-> FALSE, text |-> <<>>]

\* How a run ended: the operation, its section, the instruction it was given,
\* the only_sections_up_to it passed on, "ok" or the call that raised, and
\* whether one of its writes replaced a different text.
Ended(op, section_id, modification_instructions, up_to, outcome, replaced) ==
    [op |-> op, section_id |-> section_id, modification |-> modification_instructions,
     up_to |-> up_to, outcome |-> outcome, replaced |-> replaced]

\* No call of the assembler or of chunk_text is in progress.
NoCall == [op |-> "none"]

\* An empty output directory, before any run.
StoreInit ==
    /\ files = EmptyMap
    /\ composite = NoComposite
    /\ pc = "idle"
    /\ done = 0
    /\ chunks = <<>>
    /\ last = Ended("none", "", NoInstruction, <<>>, "ok", FALSE)
    /\ lastText = EmptyMap

Init ==
    /\ StoreInit
    /\ asm = NoCall
    /\ ct = NoCall
    /\ a1 = NoCall

\* In the actions a value computed once is bound with \E x \in {e}.

\* run_agent2_single(section_id, modification_instructions=...)
RunAgent2Single(section_id, modification_instructions, pool, llm) ==
    /\ pc = "idle"
    /\ \E gen \in {generate_section(section_id, pool, DEFAULT_MAX_CONTEXT_CHARS, llm)},
          only_up_to \in {OnlyUpTo(section_id, modification_instructions)} :
         \E fs \in {StoreAfterGeneration(files, section_id, gen)} :
           /\ files' = fs
           /\ IF gen.raised
              THEN /\ last' = Ended("single", section_id, modification_instructions,
                                    only_up_to, "gen_raised", FALSE)
                   /\ UNCHANGED <<composite, lastText>>
              ELSE /\ lastText' = (section_id :> gen.text) @@ lastText
                   /\ \E order \in Orders(DOMAIN fs) :
                        \E r \in {append_to_all_sections(fs, order, section_id,
                                                         gen.text, only_up_to)} :
                          /\ composite' = IF r.ok THEN r.composite ELSE composite
                          /\ last' = Ended("single", section_id, modification_instructions,
                                           only_up_to,
                                           IF r.ok THEN "ok" ELSE "read_raised",
                                           Replaces(files, section_id, gen.text))
    /\ UNCHANGED <<pc, done, chunks, asm, ct, a1>>

\* run_agent2(sections=...): load the pool, filter the valid identifiers.
BatchStart(pool) ==
    /\ pc = "idle"
    /\ pc' = "batch"
    /\ done' = 0
    /\ chunks' = pool
    /\ last' = Ended("batch_running", "", NoInstruction, <<>>, "ok", FALSE)
    /\ UNCHANGED <<files, composite, lastText, asm, ct, a1>>

\* One iteration of run_agent2's loop, for the next element of valid_sections;
\* an exception of generate_section ends the run.
BatchIteration(section_id, llm) ==
    /\ pc = "batch"
    /\ done < MaxBatch
    /\ section_id \in SectionIds
    /\ \E gen \in {generate_section(section_id, chunks, DEFAULT_MAX_CONTEXT_CHARS, llm)} :
           /\ files' = StoreAfterGeneration(files, section_id, gen)
           /\ IF gen.raised
              THEN /\ pc' = "idle"
                   /\ done' = 0
                   /\ chunks' = <<>>
                   /\ last' = Ended("batch", section_id, NoInstruction, <<>>,
                                    "gen_raised", last.replaced)
                   /\ UNCHANGED lastText
              ELSE /\ lastText' = (section_id :> gen.text) @@ lastText
                   /\ done' = done + 1
                   /\ last' = [last EXCEPT !.section_id = section_id,
                                            !.replaced =
                                   @ \/ Replaces(files, section_id, gen.text)]
                   /\ UNCHANGED <<pc, chunks>>
    /\ UNCHANGED <<composite, asm, ct, a1>>

\* The end of run_agent2's loop: _rebuild_all_sections.
BatchFinish ==
    /\ pc = "batch"
    /\ pc' = "idle"
    /\ done' = 0
    /\ chunks' = <<>>
    /\ \E order \in Orders(DOMAIN files) :
         \E r \in {rebuild_all_sections(files, order)} :
           /\ composite' = IF r.ok THEN r.composite ELSE composite
           /\ last' = Ended("batch", "", NoInstruction, <<>>,
                            IF r.ok THEN "ok" ELSE "read_raised", last.replaced)
    /\ UNCHANGED <<files, lastText, asm, ct, a1>>

\* Outside the program: a section file becomes undecodable as UTF-8, at most
\* one file of the directory at a time.
CorruptFile(name) ==
    /\ pc = "idle"
    /\ name \in DOMAIN files
    /\ \A n \in DOMAIN files : files[n].readable
    /\ files' = [files EXCEPT ![name].readable = FALSE]
    /\ UNCHANGED <<composite, pc, done, chunks, last, lastText, asm, ct, a1>>

Next ==
    \/ \E section_id \in UsedIds, m \in ModificationInstructions,
          pool \in StorePools, llm \in LlmOutcomes :
            RunAgent2Single(section_id, m, pool, llm)
    \/ \E pool \in StorePools : BatchStart(pool)
    \/ \E section_id \in UsedIds, llm \in LlmOutcomes : BatchIteration(section_id, llm)
    \/ BatchFinish

Spec == Init /\ [][Next]_vars

NextCorrupt ==
    \/ Next
    \/ \E name \in DOMAIN files : CorruptFile(name)

SpecCorrupt == Init /\ [][NextCorrupt]_vars

\* valid_sections = [sid for sid in sections if sid in ...]: an element of
\* sections that SECTIONS does not hold is dropped and never reaches the loop;
\* last keeps the element that was dropped.
BatchSkip(section_id) ==
    /\ pc = "batch"
    /\ section_id \notin SectionIds
    /\ last' = [last EXCEPT !.section_id = section_id]
    /\ UNCHANGED <<files, composite, pc, done, chunks, lastText, asm, ct, a1>>

\* The runs asked for an identifier of SECTIONS or for one outside it:
\* run_agent2_single tests its section_id nowhere.
MixedIds == {"Summary", UnknownId}

NextUnknown ==
    \/ \E section_id \in MixedIds, m \in ModificationInstructions,
          pool \in StorePools, llm \in LlmOutcomes :
            RunAgent2Single(section_id, m, pool, llm)
    \/ \E pool \in StorePools : BatchStart(pool)
    \/ \E section_id \in MixedIds, llm \in LlmOutcomes : BatchIteration(section_id, llm)
    \/ \E section_id \in MixedIds : BatchSkip(section_id)
    \/ BatchFinish

SpecUnknown == Init /\ [][NextUnknown]_vars

(***************************************************************************)
(* Calls of the context assembler and of generate_section on their own.    *)
(***************************************************************************)
\* Longest pool, largest budget and longest fragment text of these calls.
MaxPool == 3
MaxBudget == 3
MaxFragmentLen == 2

\* Fragment texts by length; only the length of a text reaches the assembler.
FragmentText(n) == [k \in 1..n |-> "x"]

\* Categories a pool record may carry: two fine-grained codes, and one that is
\* no fine-grained code at all (as is a record without the key).
AsmCategories == {"A", "H", "Z"}

AsmFragments ==
    [section_id : AsmCategories, text : {FragmentText(n) : n \in 0..MaxFragmentLen}]

RECURSIVE SeqsUpTo(_, _)
SeqsUpTo(S, n) ==
    IF n = 0 THEN {<<>>}
    ELSE LET shorter == SeqsUpTo(S, n - 1)
         IN  shorter \cup {Append(q, x) : q \in {r \in shorter : Len(r) = n - 1}, x \in S}

AsmPools == SeqsUpTo(AsmFragments, MaxPool)

\* An output section mapped to the single code H, and an identifier that
\* SECTION_TO_AGENT1_IDS has no entry for.
AsmIds == {"Underwriting", "NotASection"}

AsmRequests == [pool : AsmPools, section_id : AsmIds, max_chars : 0..MaxBudget]

InitAssemble ==
    /\ StoreInit
    /\ ct = NoCall
    /\ a1 = NoCall
    /\ \E request \in AsmRequests : asm = [op |-> "request", request |-> request]

\* get_chunks_for_section(chunks, section_id, max_chars)
CallGetChunksForSection ==
    /\ asm.op = "request"
    /\ asm' = [op |-> "assembled", request |-> asm.request,
               result |-> get_chunks_for_section(asm.request.pool,
                                                 asm.request.section_id,
                                                 asm.request.max_chars)]
    /\ UNCHANGED <<storeVars, ct, a1>>

\* generate_section(section_id, chunks, ..., max_context_chars=...)
CallGenerateSection(llm) ==
    /\ asm.op = "request"
    /\ asm' = [op |-> "generated", request |-> asm.request,
               result |-> generate_section(asm.request.section_id, asm.request.pool,
                                           asm.request.max_chars, llm)]
    /\ UNCHANGED <<storeVars, ct, a1>>

NextAssemble ==
    \/ CallGetChunksForSection
    \/ \E llm \in LlmOutcomes : CallGenerateSection(llm)

SpecAssemble == InitAssemble /\ [][NextAssemble]_vars

(***************************************************************************)
(* agent1.py: chunk_text.                                                  *)
(***************************************************************************)
\* Longest input text and largest max_chars of the modelled calls.
MaxTextLen == 5
MaxChars == 3

\* Passes of chunk_text's loop that are followed: more than any call with
\* max_chars > overlap makes, so only a loop that does not end is cut short.
MaxPasses == MaxTextLen + 2

\* re.sub(r"\r", "\n", text)
ReplaceCR(s) == [k \in 1..Len(s) |-> IF s[k] = "\r" THEN "\n" ELSE s[k]]

\* re.sub(r"[ \t]+\n", "\n", s): a blank is dropped when only blanks separate
\* it from the next newline.
RECURSIVE DropBlanksBeforeNewline(_)
DropBlanksBeforeNewline(s) ==
    IF s = <<>> THEN <<>>
    ELSE LET rest == DropBlanksBeforeNewline(Tail(s))
         IN  IF Head(s) \in {" ", "\t"} /\ rest # <<>> /\ Head(rest) = "\n"
             THEN rest
             ELSE <<Head(s)>> \o rest

\* re.sub(r"\n{3,}", "\n\n", s)
RECURSIVE CollapseNewlines(_)
CollapseNewlines(s) ==
    IF s = <<>> THEN <<>>
    ELSE LET rest == CollapseNewlines(Tail(s))
         IN  IF Head(s) = "\n" /\ Len(rest) >= 2 /\ rest[1] = "\n" /\ rest[2] = "\n"
             THEN rest
             ELSE <<Head(s)>> \o rest

\* The three substitutions and two strips that open chunk_text, each applied to
\* the value the one before it produced.
Cleaned(text) ==
    CHOOSE cleaned \in
        {Strip(collapsed) : collapsed \in
            {CollapseNewlines(dropped) : dropped \in
                {DropBlanksBeforeNewline(stripped) : stripped \in
                    {Strip(replaced) : replaced \in {ReplaceCR(text)}}}}} : TRUE

Min(a, b) == IF a < b THEN a ELSE b

\* cleaned[i:end]
Slice(s, i, end) == SubSeq(s, i + 1, end)

\* A cursor that restarts at the end of the slice, keeping no overlap.
NextCursorWithoutOverlap(end, overlap) == end

\* i = end - overlap; if i < 0: i = 0
NextCursor(end, overlap) == IF end - overlap < 0 THEN 0 ELSE end - overlap

\* The j-th non-whitespace character of an input text is a letter of its own.
Letters == <<"a", "b", "c", "d", "e", "f", "g", "h">>

Shapes == SeqsUpTo({"x", " ", "\t", "\n", "\r"}, MaxTextLen)

TextOf(shape) == [k \in 1..Len(shape) |-> IF shape[k] = "x" THEN Letters[k] ELSE shape[k]]

\* (max_chars, overlap) with max_chars > overlap >= 0.
ChunkParams == {p \in (1..MaxChars) \X (0..MaxChars) : p[1] > p[2]}

InitChunk ==
    /\ StoreInit
    /\ asm = NoCall
    /\ a1 = NoCall
    /\ \E shape \in Shapes, p \in ChunkParams :
         ct = [op |-> "called", text |-> TextOf(shape), max_chars |-> p[1],
               overlap |-> p[2], cleaned |-> <<>>, i |-> 0, chunks |-> <<>>,
               slices |-> <<>>, starts |-> <<>>]

\* chunk_text up to its loop: cleaned is computed, an empty one returns [].
ChunkTextEnter ==
    /\ ct.op = "called"
    /\ \E cleaned \in {Cleaned(ct.text)} :
         ct' = [ct EXCEPT !.cleaned = cleaned,
                          !.op = IF cleaned = <<>> THEN "returned" ELSE "loop"]
    /\ UNCHANGED <<storeVars, asm, a1>>

\* One pass of chunk_text's while loop; slices keeps each cleaned[i:end] as cut
\* and starts the value of i it was cut at.
ChunkTextIterate ==
    /\ ct.op = "loop"
    /\ Len(ct.slices) < MaxPasses
    /\ IF ct.i < Len(ct.cleaned)
       THEN \E end \in {Min(ct.i + ct.max_chars, Len(ct.cleaned))} :
              \E slice_ \in {Strip(Slice(ct.cleaned, ct.i, end))} :
                ct' = [ct EXCEPT
                         !.chunks = IF slice_ # <<>> THEN Append(@, slice_) ELSE @,
                         !.slices = Append(@, Slice(ct.cleaned, ct.i, end)),
                         !.starts = Append(@, ct.i),
                         !.i = NextCursor(end, ct.overlap),
                         !.op = IF end >= Len(ct.cleaned) THEN "returned" ELSE "loop"]
       ELSE ct' = [ct EXCEPT !.op = "returned"]
    /\ UNCHANGED <<storeVars, asm, a1>>

NextChunk ==
    \/ ChunkTextEnter
    \/ ChunkTextIterate

SpecChunk == InitChunk /\ [][NextChunk]_vars

\* The same calls entered from one initial state. Whether a call is made is up
\* to the caller; once made, nothing suspends it, so the steps of chunk_text
\* (NextChunk) are taken as long as it has one.
InitChunkLive ==
    /\ StoreInit
    /\ asm = NoCall
    /\ a1 = NoCall
    /\ ct = NoCall

\* chunk_text(text, max_chars, overlap) is called.
ChunkTextCall ==
    /\ ct.op = "none"
    /\ \E shape \in Shapes, p \in ChunkParams :
           ct' = [op |-> "called", text |-> TextOf(shape), max_chars |-> p[1],
                  overlap |-> p[2], cleaned |-> <<>>, i |-> 0, chunks |-> <<>>,
                  slices |-> <<>>, starts |-> <<>>]
    /\ UNCHANGED <<storeVars, asm, a1>>

NextChunkLive ==
    \/ ChunkTextCall
    \/ ChunkTextEnter
    \/ ChunkTextIterate

SpecChunkLive == InitChunkLive /\ [][NextChunkLive]_vars /\ WF_vars(NextChunk)

\* Every (max_chars, overlap) of positive max_chars and non-negative overlap,
\* overlap >= max_chars included: chunk_text tests neither argument.
AnyChunkParams == (1..MaxChars) \X (0..MaxChars)

InitChunkAny ==
    /\ StoreInit
    /\ asm = NoCall
    /\ a1 = NoCall
    /\ \E shape \in Shapes, p \in AnyChunkParams :
         ct = [op |-> "called", text |-> TextOf(shape), max_chars |-> p[1],
               overlap |-> p[2], cleaned |-> <<>>, i |-> 0, chunks |-> <<>>,
               slices |-> <<>>, starts |-> <<>>]

SpecChunkAny == InitChunkAny /\ [][NextChunk]_vars

\* Calls of chunk_text on long runs of one non-whitespace character.  Every
\* length, max_chars and overlap here is a multiple of Unit characters, so all
\* slice boundaries are, and a token stands for Unit characters of the run.
Unit == 200

\* The longest such text, in tokens.
MaxRunTokens == 12

RunParams == (4..6) \X (0..2)

InitChunkRun ==
    /\ StoreInit
    /\ asm = NoCall
    /\ a1 = NoCall
    /\ \E n \in 0..MaxRunTokens, p \in RunParams :
         ct = [op |-> "called", text |-> [k \in 1..n |-> "A"], max_chars |-> p[1],
               overlap |-> p[2], cleaned |-> <<>>, i |-> 0, chunks |-> <<>>,
               slices |-> <<>>, starts |-> <<>>]

SpecChunkRun == InitChunkRun /\ [][NextChunk]_vars

(***************************************************************************)
(* agent1.py: classify_file.                                               *)
(* A file name is a sequence of tokens: "/", ".", and runs of characters   *)
(* without either, each run a key of FILE_TO_SECTION in some letter case   *)
(* or a run that shares no character with any key.                         *)
(***************************************************************************)
\* Longest stem, in tokens, of the modelled file names.
MaxStemLen == 2

\* FILE_TO_SECTION in declaration order.
FILE_TO_SECTION ==
    << <<"company-introduction", "A">>,
       <<"business-data", "A">>,
       <<"market-performance-comparison", "B">>,
       <<"comprehensive-comparison", "B">>,
       <<"balance-sheet", "D">>,
       <<"financial-ratios-comparison", "D">>,
       <<"financial-data-comparison", "D">>,
       <<"cash-flow", "D">>,
       <<"growth-capability", "D">>,
       <<"operating-capability", "D">>,
       <<"profit-forecast-comparison", "D">>,
       <<"share-capital-structure", "E">>,
       <<"holdings-or-equity", "E">>,
       <<"mainland-fund-holdings", "E">>,
       <<"board-and-executives", "F">> >>

\* str.lower on one token of a file name.
LowerToken(tok) ==
    CASE tok \in {"COMPANY-INTRODUCTION", "Company-Introduction"} -> "company-introduction"
      [] tok \in {"SHARE-CAPITAL-STRUCTURE", "Share-Capital-Structure"}
            -> "share-capital-structure"
      [] tok \in {"BOARD-AND-EXECUTIVES", "Board-And-Executives"} -> "board-and-executives"
      [] tok \in {"CASH-FLOW", "Cash-Flow"} -> "cash-flow"
      [] tok = "X" -> "x"
      [] tok = "XLSX" -> "xlsx"
      [] tok = "DATA" -> "data"
      [] OTHER -> tok

\* str.lower
Lower(s) == [k \in 1..Len(s) |-> LowerToken(s[k])]

\* Position of the last occurrence of tok in s, 0 when there is none.
LastIndexOf(s, tok) ==
    LET at == {k \in 1..Len(s) : s[k] = tok}
    IN  IF at = {} THEN 0 ELSE CHOOSE k \in at : \A j \in at : j <= k

\* Path(filename).name: what follows the last separator.
PathName(filename) == SubSeq(filename, LastIndexOf(filename, "/") + 1, Len(filename))

\* Path(filename).stem: the name without its last suffix.
PathStem(filename) ==
    LET name == PathName(filename)
        dot == LastIndexOf(name, ".")
    IN  IF 1 < dot /\ dot < Len(name) THEN SubSeq(name, 1, dot - 1) ELSE name

\* The first rule, in declaration order, whose key is in stem; D without one.
FirstRuleCode(stem) ==
    LET hits == {i \in 1..Len(FILE_TO_SECTION) : Contains(stem, <<FILE_TO_SECTION[i][1]>>)}
    IN  IF hits = {} THEN "D"
        ELSE FILE_TO_SECTION[CHOOSE i \in hits : \A j \in hits : i <= j][2]

\* classify_file without .lower()
ClassifyFileCaseSensitive(filename) == FirstRuleCode(PathStem(filename))

\* classify_file with rules for the three codes FILE_TO_SECTION never assigns.
ClassifyFileByTopic(filename) ==
    LET stem == Lower(PathStem(filename))
    IN  IF Contains(stem, <<"risk-factors">>) THEN "C"
        ELSE IF Contains(stem, <<"legal-compliance">>) THEN "G"
        ELSE IF Contains(stem, <<"underwriting">>) THEN "H"
        ELSE FirstRuleCode(stem)

classify_file(filename) == FirstRuleCode(Lower(PathStem(filename)))

\* Tokens of the modelled stems: the first, the last and a middle key of
\* FILE_TO_SECTION in several letter cases, and a run outside every key.
StemTokens ==
    {"x", "X", "company-introduction", "COMPANY-INTRODUCTION",
     "share-capital-structure", "board-and-executives", "Board-And-Executives"}

\* Directory parts: none, a plain directory, one whose own name holds a key,
\* an absolute path.
DirParts == {<<>>, <<"DATA", "/">>, <<"cash-flow", "/">>, <<"/", "x", "/", "Cash-Flow", "/">>}

Suffixes == {<<".", "xlsx">>, <<".", "XLSX">>}

FileNames ==
    {dir \o stem \o suffix :
        dir \in DirParts,
        stem \in SeqsUpTo(StemTokens, MaxStemLen) \ {<<>>},
        suffix \in Suffixes}

InitClassify ==
    /\ StoreInit
    /\ asm = NoCall
    /\ ct = NoCall
    /\ \E filename \in FileNames : a1 = [op |-> "filename", filename |-> filename]

\* classify_file(filename)
ClassifyFile ==
    /\ a1.op = "filename"
    /\ a1' = [op |-> "classified", filename |-> a1.filename,
              section_id |-> classify_file(a1.filename)]
    /\ UNCHANGED <<storeVars, asm, ct>>

NextClassify == ClassifyFile

SpecClassify == InitClassify /\ [][NextClassify]_vars

(***************************************************************************)
(* agent1.py: run_agent1.                                                  *)
(***************************************************************************)
\* Runs of run_agent1 over one data directory that are followed.
MaxRuns == 2

\* The loop of chunk_text from cursor i on, for max_chars > overlap.
RECURSIVE ChunkTextFrom(_, _, _, _)
ChunkTextFrom(cleaned, i, max_chars, overlap) ==
    IF i >= Len(cleaned) THEN <<>>
    ELSE LET end == Min(i + max_chars, Len(cleaned))
             slice_ == Strip(Slice(cleaned, i, end))
         IN  (IF slice_ # <<>> THEN <<slice_>> ELSE <<>>)
                 \o (IF end >= Len(cleaned) THEN <<>>
                     ELSE ChunkTextFrom(cleaned, NextCursor(end, overlap),
                                        max_chars, overlap))

\* chunk_text(text, max_chars, overlap), for max_chars > overlap
chunk_text(text, max_chars, overlap) ==
    IF Cleaned(text) = <<>> THEN <<>>
    ELSE ChunkTextFrom(Cleaned(text), 0, max_chars, overlap)

\* What run_qwen_text does when summarize_table_with_qwen calls it.
SummaryOutcomes ==
    { [raises |-> TRUE, response |-> <<>>],
      [raises |-> FALSE, response |-> <<" ">>],
      [raises |-> FALSE, response |-> <<"s">>],
      [raises |-> FALSE, response |-> <<"t", " ">>] }

\* summarize_table_with_qwen: the stripped response, or the fixed line when
\* the call raised or the stripped response is empty.
summarize_table_with_qwen(filename, sheet_name, outcome) ==
    LET fixed == <<"Table: ">> \o filename \o <<" / ", sheet_name>>
    IN  IF outcome.raises THEN fixed
        ELSE IF Strip(outcome.response) = <<>> THEN fixed
        ELSE Strip(outcome.response)

\* chunk[:50]
ChunkIdPrefix == 50

Prefix(s, n) == SubSeq(s, 1, Min(n, Len(s)))

\* An identifier computed from the stored text, summary included.
ChunkIdOfStoredText(name, sheet_name, i, chunk, summary) ==
    <<name, sheet_name, i, Prefix(summary \o <<"\n", "\n", "[Data]", "\n">> \o chunk,
                                  ChunkIdPrefix)>>

\* hashlib.md5(f"{f.name}:{sheet_name}:{i}:{chunk[:50]}".encode()).hexdigest()[:12]:
\* the digest stands for the string it is computed from.
ChunkId(name, sheet_name, i, chunk, summary) ==
    <<name, sheet_name, i, Prefix(chunk, ChunkIdPrefix)>>

\* The records appended for the chunks of one sheet, in order.
RecordsOf(name, sheet_name, section_id, summary, pieces) ==
    [k \in 1..Len(pieces) |->
        [chunk_id |-> ChunkId(name, sheet_name, k - 1, pieces[k], summary),
         section_id |-> section_id,
         source_file |-> name,
         sheet_name |-> sheet_name,
         chunk_index |-> k - 1,
         text |-> summary \o <<"\n", "\n", "[Data]", "\n">> \o pieces[k],
         sheet_summary |-> summary]]

\* One pass of the loop over the sheets of a file: summary, chunks, records.
SheetRecords(name, sheet, max_chars, overlap, outcome) ==
    RecordsOf(name, sheet.sheet_name, classify_file(name),
              summarize_table_with_qwen(name, sheet.sheet_name, outcome),
              chunk_text(<<"[Sheet: ", sheet.sheet_name, "]", "\n">> \o sheet.text,
                         max_chars, overlap))

\* The file names of the modelled data directories, in sorted order.
DataNames == << <<"balance-sheet", ".", "xlsx">>, <<"x", ".", "xlsx">> >>

\* The file names of every modelled directory in sorted order: the names of
\* DataNames, names holding a key of each code FILE_TO_SECTION assigns, and
\* names about risk, law and the offering, which no key is in.
SortedNames ==
    << <<"balance-sheet", ".", "xlsx">>,
       <<"board-and-executives", ".", "xlsx">>,
       <<"company-introduction", ".", "xlsx">>,
       <<"legal-compliance", ".", "xlsx">>,
       <<"market-performance-comparison", ".", "xlsx">>,
       <<"risk-factors", ".", "xlsx">>,
       <<"share-capital-structure", ".", "xlsx">>,
       <<"underwriting", ".", "xlsx">>,
       <<"x", ".", "xlsx">> >>

NameRank(name) == CHOOSE k \in DOMAIN SortedNames : SortedNames[k] = name

\* sorted(data_path.glob("*.xlsx"))
Sorted(listing) ==
    IF Len(listing) = 2 /\ NameRank(listing[1].name) > NameRank(listing[2].name)
    THEN <<listing[2], listing[1]>>
    ELSE listing

\* all_chunks after the loops over the files and their sheets; outcomes gives
\* the summarizer's behaviour for each sheet of each file.
RECURSIVE AllChunks(_, _, _, _, _, _)
AllChunks(listing, f, k, max_chars, overlap, outcomes) ==
    IF f > Len(listing) THEN <<>>
    ELSE IF k > Len(listing[f].sheets)
    THEN AllChunks(listing, f + 1, 1, max_chars, overlap, outcomes)
    ELSE SheetRecords(listing[f].name, listing[f].sheets[k], max_chars, overlap,
                      outcomes[<<listing[f].name, k>>])
             \o AllChunks(listing, f, k + 1, max_chars, overlap, outcomes)

\* Sheets as extract_per_sheet returns them: non-blank, named after the sheet.
SheetTexts == {<<"a", "b", "c", "d">>, <<"a", " ", "b">>}

Workbooks ==
    {<<>>} \cup {<<[sheet_name |-> "S1", text |-> t]>> : t \in SheetTexts}
           \cup {<<[sheet_name |-> "S1", text |-> t], [sheet_name |-> "S2", text |-> u]>> :
                    t \in SheetTexts, u \in SheetTexts}

\* Data directories: one workbook, or two workbooks of at most one sheet each.
DataDirs ==
    {{[name |-> DataNames[n], sheets |-> w]} : n \in DOMAIN DataNames, w \in Workbooks}
    \cup {{[name |-> DataNames[1], sheets |-> w], [name |-> DataNames[2], sheets |-> v]} :
             w \in {x \in Workbooks : Len(x) <= 1}, v \in {x \in Workbooks : Len(x) <= 1}}

\* The sheets of a directory, each named by its file and position.
SheetKeys(dir) ==
    UNION {{<<file.name, k>> : k \in 1..Len(file.sheets)} : file \in dir}

\* (max_chars, overlap) of the modelled runs: with and without overlap.
Agent1Params == {<<2, 0>>, <<3, 1>>}

InitAgent1 ==
    /\ StoreInit
    /\ asm = NoCall
    /\ ct = NoCall
    /\ \E dir \in DataDirs, p \in Agent1Params :
         a1 = [op |-> "runs", dir |-> dir, max_chars |-> p[1], overlap |-> p[2],
               outputs |-> <<>>]

\* run_agent1(data_dir, output_dir, max_chars, overlap): rag_chunks.jsonl of
\* the run is appended to outputs.
RunAgent1(listing, outcomes) ==
    /\ a1.op = "runs"
    /\ Len(a1.outputs) < MaxRuns
    /\ a1' = [a1 EXCEPT !.outputs =
                 Append(@, AllChunks(Sorted(listing), 1, 1, a1.max_chars, a1.overlap,
                                     outcomes))]
    /\ UNCHANGED <<storeVars, asm, ct>>

NextAgent1 ==
    \E listing \in Orders(a1.dir), outcomes \in [SheetKeys(a1.dir) -> SummaryOutcomes] :
        RunAgent1(listing, outcomes)

SpecAgent1 == InitAgent1 /\ [][NextAgent1]_vars

(***************************************************************************)
(* run_agent1 followed by agent2's generate_section on the pool it wrote.  *)
(***************************************************************************)
\* Data directories of one workbook under any name of SortedNames, or of two
\* one-sheet workbooks under two of them.
PipelineDirs ==
    {{[name |-> SortedNames[n], sheets |-> w]} :
        n \in DOMAIN SortedNames, w \in {x \in Workbooks : Len(x) <= 1}}
    \cup {{[name |-> SortedNames[q[1]], sheets |-> <<[sheet_name |-> "S1", text |-> t]>>],
            [name |-> SortedNames[q[2]], sheets |-> <<[sheet_name |-> "S1", text |-> t]>>]} :
             q \in {r \in (DOMAIN SortedNames) \X (DOMAIN SortedNames) : r[1] < r[2]},
             t \in {x \in SheetTexts : Len(x) = 4}}

\* The output sections generate_section is asked for: the three mapped to C,
\* G or H alone, and two mapped to codes classify_file assigns.
PipelineSections == {"RiskFactors", "Waivers", "Underwriting", "Summary", "ShareCapital"}

\* The summarizer raises or answers.
PipelineOutcomes == {o \in SummaryOutcomes : o.raises \/ o.response = <<"s">>}

InitPipeline ==
    /\ StoreInit
    /\ asm = NoCall
    /\ ct = NoCall
    /\ \E dir \in PipelineDirs, p \in Agent1Params :
         a1 = [op |-> "runs", dir |-> dir, max_chars |-> p[1], overlap |-> p[2],
               outputs |-> <<>>]

\* chunks = load_rag_chunks(rag_path): the rag_chunks.jsonl of the latest run
\* of run_agent1 is the pool of a request for one section.
LoadRagChunks(section_id) ==
    /\ asm.op = "none"
    /\ a1.op = "runs"
    /\ a1.outputs # <<>>
    /\ asm' = [op |-> "request",
               request |-> [pool |-> a1.outputs[Len(a1.outputs)],
                            section_id |-> section_id,
                            max_chars |-> DEFAULT_MAX_CONTEXT_CHARS]]
    /\ UNCHANGED <<storeVars, ct, a1>>

NextPipeline ==
    \/ \E listing \in Orders(a1.dir), outcomes \in [SheetKeys(a1.dir) -> PipelineOutcomes] :
            RunAgent1(listing, outcomes)
    \/ \E section_id \in PipelineSections : LoadRagChunks(section_id)
    \/ \E llm \in LlmOutcomes : CallGenerateSection(llm)

SpecPipeline == InitPipeline /\ [][NextPipeline]_vars

(***************************************************************************)
(* The section store: what the runs guarantee.                             *)
(***************************************************************************)
CompositeIds == [k \in DOMAIN composite.entries |-> composite.entries[k].sid]

InComposite(sid) == \E k \in DOMAIN composite.entries : composite.entries[k].sid = sid

\* The taxonomy sections with a decodable per-section file.
Persisted ==
    {sid \in SectionIds : FileStem(sid) \in DOMAIN files /\ files[FileStem(sid)].readable}

RunEndedOk(op) == pc = "idle" /\ last.op = op /\ last.outcome = "ok"

\* C1: whatever the order of the runs and of the directory listing, the
\* sections of all_sections.md are taxonomy sections in strictly increasing
\* taxonomy position, so each appears at most once.
C1_CompositeCanonicalOrder ==
    /\ \A k \in DOMAIN CompositeIds : CompositeIds[k] \in SectionIds
    /\ \A j, k \in DOMAIN CompositeIds :
         j < k => IndexOf(CompositeIds[j]) < IndexOf(CompositeIds[k])

\* Summary was generated last, after GlobalOfferingStructure, and both are in
\* the composite.
C1_Witness ==
    /\ RunEndedOk("single")
    /\ last.section_id = "Summary"
    /\ Len(composite.entries) = 2

\* C2: after a single-section run that passed only_sections_up_to = s, the
\* composite holds s and nothing positioned after s, whatever is persisted.
C2_PrefixExcludesLater ==
    (RunEndedOk("single") /\ last.up_to # <<>>) =>
        /\ InComposite(last.section_id)
        /\ \A k \in DOMAIN CompositeIds :
             IndexOf(CompositeIds[k]) <= IndexOf(last.section_id)

\* A prefix rebuild up to Summary while GlobalOfferingStructure is persisted.
C2_Witness ==
    /\ RunEndedOk("single")
    /\ last.up_to = <<"Summary">>
    /\ "GlobalOfferingStructure" \in Persisted

\* The reading of "a modification instruction was supplied": text was given.
InstructionSupplied(m) == m.given /\ m.text # <<>>

\* C3: a single-section run with a modification instruction leaves every
\* persisted section in the composite (full mode); without one the composite
\* holds exactly the persisted sections positioned up to the run's section
\* (prefix mode).
C3_ModeFollowsInstruction ==
    RunEndedOk("single") =>
        IF InstructionSupplied(last.modification)
        THEN \A sid \in Persisted : InComposite(sid)
        ELSE \A sid \in SectionIds :
                InComposite(sid) <=>
                    (sid \in Persisted /\ IndexOf(sid) <= IndexOf(last.section_id))

\* Summary regenerated with an instruction while the later section is persisted.
C3_Witness ==
    /\ RunEndedOk("single")
    /\ InstructionSupplied(last.modification)
    /\ last.section_id = "Summary"
    /\ "GlobalOfferingStructure" \in Persisted

\* C4: each taxonomy section has at most one per-section file, a rebuild reads
\* from it the text of the latest write for that section, and the composite a
\* completed run leaves shows that text.
C4_LastWriteWins ==
    /\ \A sid \in SectionIds :
         Cardinality({n \in DOMAIN files :
                         MatchIndex(n, Len(SECTIONS)) = IndexOf(sid)}) <= 1
    /\ \A sid \in Persisted :
         /\ sid \in DOMAIN lastText
         /\ RebuildBody(files[FileStem(sid)].data) = lastText[sid]
         /\ AppendBody(files[FileStem(sid)].data) = lastText[sid]
    /\ (RunEndedOk("single") \/ RunEndedOk("batch")) =>
         \A k \in DOMAIN composite.entries :
            composite.entries[k].body = lastText[composite.entries[k].sid]

\* A completed run whose write replaced a different earlier text.
C4_Witness ==
    /\ RunEndedOk("single") \/ RunEndedOk("batch")
    /\ last.replaced
    /\ composite.entries # <<>>

\* C5: a per-section file that cannot be decoded is skipped: the rebuild does
\* not raise, and the composite the run leaves holds every other persisted
\* section its mode admits.
C5_CorruptRecordSkipped ==
    (pc = "idle" /\ last.op \in {"single", "batch"} /\ last.outcome # "gen_raised") =>
        /\ last.outcome = "ok"
        /\ \A sid \in Persisted :
             (last.up_to = <<>> \/ IndexOf(sid) <= IndexOf(last.section_id))
                 => InComposite(sid)

\* C6: a step in which generation raises leaves every per-section file as it
\* was: none created, none modified, none half written.
C6_FailedGenerationLeavesStore ==
    [][last'.outcome = "gen_raised" => files' = files]_vars

\* Generation raised while per-section records existed.
C6_Witness ==
    /\ last.outcome = "gen_raised"
    /\ files # EmptyMap

\* Every composite a rebuild of the store fs can produce, in any mode.
RebuildsOf(fs) ==
    LET persisted == {sid \in SectionIds : FileStem(sid) \in DOMAIN fs}
    IN  {rebuild_all_sections(fs, order).composite : order \in Orders(DOMAIN fs)}
        \cup
        {append_to_all_sections(fs, order, sid, AppendBody(fs[FileStem(sid)].data),
                                up_to).composite :
            order \in Orders(DOMAIN fs), sid \in persisted,
            up_to \in {<<>>} \cup {<<t>> : t \in persisted}}

\* C7: when a run has ended, all_sections.md is a rebuild of the per-section
\* files as they now are.
C7_CompositeNeverDrifts ==
    (pc = "idle" /\ last.op # "none") =>
        \/ composite \in RebuildsOf(files)
        \/ ~composite.exists /\ files = EmptyMap

(***************************************************************************)
(* The context assembler and generate_section: what a call guarantees.     *)
(***************************************************************************)
RECURSIVE TotalChars(_)
TotalChars(fragments) ==
    IF fragments = <<>> THEN 0
    ELSE Len(Head(fragments).text) + TotalChars(Tail(fragments))

FineGrainedCodes == {"A", "B", "C", "D", "E", "F", "G", "H"}

\* The fragments of the pool whose category is relevant to section_id.
RelevantIn(pool, section_id) ==
    SelectSeq(pool, LAMBDA c : c.section_id \in SeqToSet(SECTION_TO_AGENT1_IDS(section_id)))

\* C8: for every pool, output-section identifier and budget, the fragments
\* get_chunks_for_section returns have text lengths summing to at most the
\* budget, and each has a category in the section's relevant-category list,
\* which is all eight codes A-H for a section without a mapping.
C8_AssemblerBudgetAndCategory ==
    asm.op = "assembled" =>
        /\ TotalChars(asm.result) <= asm.request.max_chars
        /\ \A k \in DOMAIN asm.result :
             /\ asm.result[k].section_id
                    \in SeqToSet(SECTION_TO_AGENT1_IDS(asm.request.section_id))
             /\ asm.request.section_id \notin SectionIds
                    => asm.result[k].section_id \in FineGrainedCodes
        /\ asm.request.section_id \notin SectionIds
               => SeqToSet(SECTION_TO_AGENT1_IDS(asm.request.section_id)) = FineGrainedCodes

\* An unmapped section: the first fragment is of no fine-grained category and
\* is left out, the second is kept and fills the budget exactly, the third is
\* of a fine-grained category and no longer fits.
C8_Witness ==
    /\ asm.op = "assembled"
    /\ asm.request.section_id \notin SectionIds
    /\ Len(asm.request.pool) = 3
    /\ asm.request.pool[1].section_id \notin FineGrainedCodes
    /\ asm.request.pool[3].section_id \in FineGrainedCodes
    /\ asm.result = <<asm.request.pool[2]>>
    /\ TotalChars(asm.result) = asm.request.max_chars
    /\ asm.request.max_chars > 0

\* The assembler returns nothing: the pool is empty, holds no fragment of a
\* relevant category, or its first relevant fragment alone exceeds the budget.
NothingAssembled(request) ==
    LET relevant == RelevantIn(request.pool, request.section_id)
    IN  \/ request.pool = <<>>
        \/ relevant = <<>>
        \/ Len(relevant[1].text) > request.max_chars

\* C9: generate_section invokes the external generation function if and only
\* if the assembler returned at least one fragment; when it returned none
\* (empty pool, no relevant fragment, or a first relevant fragment above the
\* budget) the result is the placeholder naming the section and generation is
\* not invoked.
C9_GenerationIffFragments ==
    asm.op = "generated" =>
        LET request == asm.request
            assembled == get_chunks_for_section(request.pool, request.section_id,
                                                request.max_chars)
        IN  /\ asm.result.invoked <=> assembled # <<>>
            /\ assembled = <<>> <=> NothingAssembled(request)
            /\ NothingAssembled(request) =>
                 /\ ~asm.result.invoked
                 /\ ~asm.result.raised
                 /\ asm.result.text = Placeholder(request.section_id)
                 /\ Contains(asm.result.text, <<request.section_id>>)

\* A pool whose first relevant fragment alone exceeds the budget: placeholder.
C9_Witness ==
    /\ asm.op = "generated"
    /\ RelevantIn(asm.request.pool, asm.request.section_id) # <<>>
    /\ Len(RelevantIn(asm.request.pool, asm.request.section_id)[1].text)
           > asm.request.max_chars
    /\ ~asm.result.invoked
    /\ asm.result.text = Placeholder(asm.request.section_id)

(***************************************************************************)
(* chunk_text: what its fragments reconstruct.                             *)
(***************************************************************************)
\* fragment[overlap:]
DropLeading(fragment, overlap) == SubSeq(fragment, overlap + 1, Len(fragment))

\* The fragments in order, each after the first without its leading overlap
\* characters, concatenated.
RECURSIVE JoinWithoutOverlap(_, _, _)
JoinWithoutOverlap(fragments, overlap, k) ==
    IF k > Len(fragments) THEN <<>>
    ELSE (IF k = 1 THEN fragments[k] ELSE DropLeading(fragments[k], overlap))
             \o JoinWithoutOverlap(fragments, overlap, k + 1)

Reconstructed == JoinWithoutOverlap(ct.chunks, ct.overlap, 1)

ValidChunkParams == ct.max_chars > ct.overlap /\ ct.overlap >= 0

\* The per-slice trim removed nothing from any slice.
NoSliceTrimmed == \A k \in DOMAIN ct.slices : Strip(ct.slices[k]) = ct.slices[k]

\* C10 as stated: for all texts and all max_chars > overlap >= 0 the fragments
\* of chunk_text, overlap removed and concatenated, are the normalized text,
\* also when a slice boundary falls on whitespace that the trim removes.
C10_ReconstructsAlways ==
    (ct.op = "returned" /\ ValidChunkParams) => Reconstructed = ct.cleaned

\* C10: for all texts and all max_chars > overlap >= 0, whenever no slice of
\* the call begins or ends with whitespace (the per-slice trim removes
\* nothing), the fragments of chunk_text, overlap removed and concatenated,
\* are the normalized text.
C10_ReconstructsUntrimmed ==
    (ct.op = "returned" /\ ValidChunkParams /\ NoSliceTrimmed)
        => Reconstructed = ct.cleaned

\* A call that normalized its text, cut two untrimmed slices with a positive
\* overlap around inner whitespace, and returned.
C10_Witness ==
    /\ ct.op = "returned"
    /\ ValidChunkParams
    /\ NoSliceTrimmed
    /\ ct.overlap > 0
    /\ Len(ct.chunks) >= 2
    /\ ct.cleaned # ct.text
    /\ \E k \in DOMAIN ct.cleaned : IsSpace(ct.cleaned[k])
    /\ Reconstructed = ct.cleaned

\* overlap >= max_chars on a text whose normalized form is longer than max_chars.
OverlapNotBelowMaxChars ==
    ct.overlap >= ct.max_chars /\ Len(Cleaned(ct.text)) > ct.max_chars

\* C11: a call with overlap >= max_chars on a text whose normalized form is
\* longer than max_chars is refused before the loop: it never runs a pass of
\* the loop, and so never cuts two slices at the same cursor position.
C11_OverlapRefusedBeforeLoop ==
    OverlapNotBelowMaxChars =>
        /\ ct.op \in {"called", "raised"}
        /\ ct.slices = <<>>
        /\ \A k \in DOMAIN ct.starts : k > 1 => ct.starts[k] > ct.starts[k - 1]

(***************************************************************************)
(* The section store: frame, idempotence, the two modes.                   *)
(***************************************************************************)
\* C12: a step of run_agent2_single or of run_agent2's loop for section s
\* leaves every per-section file other than the one of s as it was: it exists
\* after the step iff it existed before, with the same content; when the
\* generation returned, the file of s holds the header and the returned text.
C12_WriteChangesOneFile ==
    [][/\ \A n \in DOMAIN files \cup DOMAIN files' :
            n # FileStem(last'.section_id) =>
                /\ n \in DOMAIN files
                /\ n \in DOMAIN files'
                /\ files'[n] = files[n]
       /\ (last'.section_id \in SectionIds /\ last'.outcome # "gen_raised") =>
             /\ FileStem(last'.section_id) \in DOMAIN files'
             /\ files'[FileStem(last'.section_id)].data
                    = FileContent(last'.section_id, lastText'[last'.section_id])
      ]_vars

\* Inside a batch run: Summary has just been rewritten with a different text
\* while the file of GlobalOfferingStructure is in the directory.
C12_Witness ==
    /\ pc = "batch"
    /\ done = 1
    /\ last.section_id = "Summary"
    /\ last.replaced
    /\ FileStem("GlobalOfferingStructure") \in DOMAIN files

\* The step wrote for its section the text the previous write for it wrote.
SameTextAgain ==
    /\ last'.section_id = last.section_id
    /\ last'.section_id \in DOMAIN lastText
    /\ last'.outcome = "ok"
    /\ last.outcome = "ok"
    /\ lastText' = lastText

\* C13: writing a section again with the same text leaves the per-section
\* files as the first write left them, the composite rebuilt after it in the
\* same mode is the composite rebuilt after the first write, and the rebuild
\* that ends a batch is a function of the files alone.
C13_RewriteIsIdempotent ==
    [][/\ (SameTextAgain /\ last.op = "single" /\ last'.op = "single"
              /\ last'.up_to = last.up_to)
            => (files' = files /\ composite' = composite)
       /\ (SameTextAgain /\ pc = "batch" /\ pc' = "batch") => files' = files
       /\ (pc = "batch" /\ pc' = "idle" /\ last'.outcome = "ok") =>
             \A order \in Orders(DOMAIN files) :
                rebuild_all_sections(files, order).composite = composite'
      ]_vars

\* A batch run in an empty directory wrote Summary twice with the same text:
\* one file, and the second write replaced no different text.
C13_Witness ==
    /\ pc = "batch"
    /\ done = 2
    /\ last.section_id = "Summary"
    /\ ~last.replaced
    /\ DOMAIN files = {FileStem("Summary")}
    /\ ~composite.exists

(***************************************************************************)
(* classify_file: what a call guarantees.                                  *)
(***************************************************************************)
\* str.upper on one token of a file name.
UpperToken(tok) ==
    CASE LowerToken(tok) = "company-introduction" -> "COMPANY-INTRODUCTION"
      [] LowerToken(tok) = "share-capital-structure" -> "SHARE-CAPITAL-STRUCTURE"
      [] LowerToken(tok) = "board-and-executives" -> "BOARD-AND-EXECUTIVES"
      [] LowerToken(tok) = "cash-flow" -> "CASH-FLOW"
      [] LowerToken(tok) = "x" -> "X"
      [] LowerToken(tok) = "xlsx" -> "XLSX"
      [] LowerToken(tok) = "data" -> "DATA"
      [] OTHER -> tok

Upper(s) == [k \in 1..Len(s) |-> UpperToken(s[k])]

\* The name of filename in its own, in lower and in upper case, behind every
\* directory part.
SameNameElsewhere(filename) ==
    {dir \o name :
        dir \in DirParts \cup {Lower(d) : d \in DirParts},
        name \in {PathName(filename), Lower(PathName(filename)),
                  Upper(PathName(filename))}}

\* C14: classify_file gives a name the same code in every letter case and
\* behind every directory; the code is that of the first rule of
\* FILE_TO_SECTION, in declaration order, whose key is in the lower-cased
\* stem, and D when no key is.
C14_ClassifyByLowerCasedStem ==
    a1.op = "classified" =>
        LET stem == Lower(PathStem(a1.filename))
            InStem(i) == Contains(stem, <<FILE_TO_SECTION[i][1]>>)
        IN  /\ \A other \in SameNameElsewhere(a1.filename) :
                 classify_file(other) = a1.section_id
            /\ \/ \E i \in DOMAIN FILE_TO_SECTION :
                    /\ InStem(i)
                    /\ \A j \in 1..(i - 1) : ~InStem(j)
                    /\ a1.section_id = FILE_TO_SECTION[i][2]
               \/ /\ \A i \in DOMAIN FILE_TO_SECTION : ~InStem(i)
                  /\ a1.section_id = "D"

\* A name in mixed case under a directory named after another key, whose stem
\* holds the last rule's key before the first rule's key: the first rule wins.
C14_Witness ==
    /\ a1.op = "classified"
    /\ a1.filename = <<"cash-flow", "/", "Board-And-Executives",
                       "COMPANY-INTRODUCTION", ".", "XLSX">>
    /\ a1.section_id = "A"

(***************************************************************************)
(* run_agent1: the chunk identifiers of two runs.                          *)
(***************************************************************************)
ChunkIdsOf(output) == [k \in 1..Len(output) |-> output[k].chunk_id]

\* The chunk a record stores behind its summary and the [Data] line.
StoredChunk(rec) == SubSeq(rec.text, Len(rec.sheet_summary) + 5, Len(rec.text))

\* C15: the runs of run_agent1 over the same files with the same max_chars and
\* overlap produce the same sequence of chunk identifiers, whatever the
\* summarizer returned or raised in each; an identifier is determined by the
\* file name, the sheet name, the index and the first 50 characters of the
\* chunk, not by the summary stored in front of it.
C15_ChunkIdsIgnoreSummaries ==
    a1.op = "runs" =>
        /\ \A r, q \in DOMAIN a1.outputs :
             ChunkIdsOf(a1.outputs[r]) = ChunkIdsOf(a1.outputs[q])
        /\ \A r \in DOMAIN a1.outputs : \A k \in DOMAIN a1.outputs[r] :
             LET rec == a1.outputs[r][k]
             IN  rec.chunk_id = <<rec.source_file, rec.sheet_name, rec.chunk_index,
                                  Prefix(StoredChunk(rec), ChunkIdPrefix)>>

\* Two runs over two workbooks: the summarizer failed for the first sheet in
\* the first run and answered in the second, so the stored texts differ.
C15_Witness ==
    /\ a1.op = "runs"
    /\ Len(a1.outputs) = 2
    /\ Cardinality(a1.dir) = 2
    /\ Len(a1.outputs[1]) >= 4
    /\ a1.outputs[1][1].sheet_summary[1] = "Table: "
    /\ a1.outputs[2][1].sheet_summary = <<"s">>
    /\ a1.outputs[1][1].text # a1.outputs[2][1].text
    /\ a1.outputs[1][1].chunk_id = a1.outputs[2][1].chunk_id

(***************************************************************************)
(* The section store: prefix mode against full mode.                       *)
(***************************************************************************)
LastSectionId == section_ids_ordered[Len(section_ids_ordered)]

\* C16: the composite a prefix rebuild up to the last identifier of the
\* taxonomy leaves is, headings included, the composite the full rebuild
\* produces from the same per-section files.
C16_PrefixUpToLastIsFull ==
    (RunEndedOk("single") /\ last.section_id = LastSectionId
        /\ last.up_to = <<LastSectionId>>)
      => \A order \in Orders(DOMAIN files) :
            composite = rebuild_all_sections(files, order).composite

(***************************************************************************)
(* The context assembler: which fragments it keeps.                        *)
(***************************************************************************)
\* C17: get_chunks_for_section returns the longest prefix of the pool's
\* relevant fragments, in pool order, whose text lengths sum to at most the
\* budget: the next relevant fragment, if any, would exceed it, and nothing
\* after that fragment is returned.
C17_LongestPrefixWithinBudget ==
    asm.op = "assembled" =>
        LET relevant == RelevantIn(asm.request.pool, asm.request.section_id)
            n == Len(asm.result)
        IN  /\ n <= Len(relevant)
            /\ asm.result = SubSeq(relevant, 1, n)
            /\ TotalChars(asm.result) <= asm.request.max_chars
            /\ n < Len(relevant) =>
                 TotalChars(SubSeq(relevant, 1, n + 1)) > asm.request.max_chars

\* Three relevant fragments: the first is kept, the second does not fit, and
\* the third, which would still fit, is not returned.
C17_Witness ==
    /\ asm.op = "assembled"
    /\ Len(asm.request.pool) = 3
    /\ RelevantIn(asm.request.pool, asm.request.section_id) = asm.request.pool
    /\ asm.result = <<asm.request.pool[1]>>
    /\ Len(asm.request.pool[1].text) > 0
    /\ Len(asm.request.pool[1].text) + Len(asm.request.pool[2].text)
           > asm.request.max_chars
    /\ Len(asm.request.pool[1].text) + Len(asm.request.pool[3].text)
           <= asm.request.max_chars

(***************************************************************************)
(* chunk_text on 2400 identical characters.                                *)
(***************************************************************************)
\* The call chunk_text("A" * 2400, max_chars=1200, overlap=200) has returned.
ExampleReturned ==
    /\ ct.op = "returned"
    /\ Len(ct.text) * Unit = 2400
    /\ ct.max_chars * Unit = 1200
    /\ ct.overlap * Unit = 200

FragmentLengths == [k \in 1..Len(ct.chunks) |-> Len(ct.chunks[k]) * Unit]

CursorValues == [k \in 1..Len(ct.starts) |-> ct.starts[k] * Unit]

\* C18 as stated: the call yields 3 fragments of lengths 1200, 1200 and 200,
\* the cursor taking the values 0, 1000, 2000.
C18_LengthsAsStated ==
    ExampleReturned =>
        /\ FragmentLengths = <<1200, 1200, 200>>
        /\ CursorValues = <<0, 1000, 2000>>

\* C18: the call yields 3 fragments of lengths 1200, 1200 and 400, the cursor
\* taking the values 0, 1000, 2000; the last fragment runs from 2000 to the
\* end of the text.
C18_LengthsOfExample ==
    ExampleReturned =>
        /\ FragmentLengths = <<1200, 1200, 400>>
        /\ CursorValues = <<0, 1000, 2000>>

C18_Witness ==
    /\ ExampleReturned
    /\ Len(ct.chunks) = 3
    /\ Len(ct.chunks[3]) * Unit = 400

(***************************************************************************)
(* chunk_text: termination and the shape of its slices.                    *)
(***************************************************************************)
\* What holds of a call with max_chars > overlap >= 0 at every point.
SlicesWellFormed ==
    (ct.op # "none" /\ ValidChunkParams) =>
        /\ \A k \in DOMAIN ct.starts :
             k > 1 => ct.starts[k] = ct.starts[k - 1] + ct.max_chars - ct.overlap
        /\ \A k \in DOMAIN ct.chunks :
             ct.chunks[k] # <<>> /\ Len(ct.chunks[k]) <= ct.max_chars
        /\ Len(ct.slices) <= Len(ct.cleaned)
        /\ ct.op = "returned" =>
             /\ ct.cleaned = Cleaned(ct.text)
             /\ ct.chunks = chunk_text(ct.text, ct.max_chars, ct.overlap)
             /\ ct.cleaned # <<>> =>
                  ct.starts[Len(ct.starts)] + Len(ct.slices[Len(ct.slices)])
                      = Len(ct.cleaned)
             /\ (ct.cleaned # <<>> /\ Len(ct.cleaned) <= ct.max_chars) =>
                  ct.chunks = <<ct.cleaned>>

\* C19: for every text and every max_chars > overlap >= 0, chunk_text
\* returns; each slice starts exactly max_chars - overlap after the previous
\* one, every fragment is non-empty and at most max_chars long, the last slice
\* ends at the end of the normalized text, and a non-empty normalized text of
\* at most max_chars characters gives the one fragment equal to it.
C19_TerminatesWithRegularSlices ==
    /\ []SlicesWellFormed
    /\ (ct.op = "called" /\ ValidChunkParams) ~> (ct.op = "returned")

\* A returned call with a positive overlap that cut at least three slices, one
\* of them all whitespace and so not emitted.
C19_Witness ==
    /\ ct.op = "returned"
    /\ ValidChunkParams
    /\ ct.overlap > 0
    /\ Len(ct.slices) >= 3
    /\ Len(ct.chunks) < Len(ct.slices)

\* A step taken for an identifier that SECTIONS does not hold: last names it.
GivenUnknownId == last'.section_id \notin SectionIds \cup {""}

\* Every entry of the composite is a record of the directory, under an
\* identifier of SECTIONS.
ShowsExistingRecords(view, fs) ==
    \A k \in DOMAIN view.entries :
        LET sid == view.entries[k].sid
        IN  /\ sid \in SectionIds
            /\ FileStem(sid) \in DOMAIN fs
            /\ view.entries[k].body = RebuildBody(fs[FileStem(sid)].data)

\* C20: given an identifier that is not in SECTIONS, run_agent2 and
\* run_agent2_single invoke no generation, write no per-section file, and
\* leave the composite showing only the existing records.
C20_UnknownIdPersistsNothing ==
    [][GivenUnknownId =>
         /\ last'.outcome # "gen_raised"
         /\ lastText' = lastText
         /\ files' = files
         /\ composite' = composite \/ ShowsExistingRecords(composite', files)]_vars

\* The codes classify_file can return: the values of FILE_TO_SECTION and the
\* default D.
AssignedCodes == {"A", "B", "D", "E", "F"}

\* The output sections whose relevant codes are all among C, G and H.
SectionsOfUnassignedCodes ==
    {sid \in SectionIds : SeqToSet(SECTION_TO_AGENT1_IDS(sid)) \subseteq {"C", "G", "H"}}

\* Every record of every rag_chunks.jsonl written so far has an assigned code.
PoolsCarryAssignedCodes ==
    a1.op = "runs" =>
        \A r \in DOMAIN a1.outputs : \A k \in DOMAIN a1.outputs[r] :
            a1.outputs[r][k].section_id \in AssignedCodes

\* C21: every chunk written by run_agent1 carries a code in {A, B, D, E, F};
\* the output sections mapped only to C, G or H are RiskFactors, Waivers and
\* Underwriting; and generate_section for one of them, on a pool run_agent1
\* wrote, returns the placeholder without invoking generation.
C21_UnassignedCodesGivePlaceholder ==
    /\ {FILE_TO_SECTION[i][2] : i \in DOMAIN FILE_TO_SECTION} \cup {"D"} = AssignedCodes
    /\ PoolsCarryAssignedCodes
    /\ SectionsOfUnassignedCodes = {"RiskFactors", "Waivers", "Underwriting"}
    /\ (asm.op = "generated" /\ asm.request.section_id \in SectionsOfUnassignedCodes) =>
           /\ ~asm.result.invoked
           /\ ~asm.result.raised
           /\ asm.result.text = Placeholder(asm.request.section_id)

\* generate_section was called for Underwriting on a pool holding the chunks
\* of underwriting.xlsx and of a second workbook.
C21_Witness ==
    /\ asm.op = "generated"
    /\ asm.request.section_id = "Underwriting"
    /\ Len(asm.request.pool) >= 2
    /\ \E k \in DOMAIN asm.request.pool :
           asm.request.pool[k].source_file = <<"underwriting", ".", "xlsx">>
    /\ \E k \in DOMAIN asm.request.pool :
           asm.request.pool[k].source_file # <<"underwriting", ".", "xlsx">>

====
